---- MODULE Spec2Model ----
(***************************************************************************)
(* A model of the Merkle partial-proof engine of                           *)
(* eth2/utils/merkle_partial/src/partial.rs: the Partial facade (load,     *)
(* extract, get/set bytes, is_valid, fill, root, refresh) over a sparse    *)
(* chunk cache, with the tree arithmetic, the cache and the overlay it     *)
(* calls.                                                                  *)
(*                                                                         *)
(* A byte is a 1-tuple <<n>> with n in 0..255.  The hash is collision      *)
(* free: the digest of left ++ right is a chunk whose first byte is the    *)
(* pair <<left, right>>, so two digests are equal exactly when their       *)
(* inputs are, and no digest equals a chunk of plain bytes.                *)
(***************************************************************************)
EXTENDS Integers, Sequences, FiniteSets, TLC

VARIABLES cache, op, ret, nops, it, chain, hist, walk

\* The Partial and the last call on it.
partialVars == <<cache, op, ret, nops>>

\* A root iterator, the store behind it and what it has yielded.
iterVars == <<it, chain, hist>>

vars == <<cache, op, ret, nops, it, chain, hist, walk>>

(* ------------------------------ bounds --------------------------------- *)

\* Largest tree position a cache of the model holds (positions 0..6 are the
\* complete tree of depth 2).
MaxIndex == 6

\* Number of operations in one behaviour.
MaxOps == 2

\* Longest SerializedPartial handed to load_partial after construction.
MaxLoad == 1

\* Highest index the proof walk is started from.
MaxLeaf == 14

\* Longest SerializedPartial that may name an index more than once.
MaxRepeat == 2

\* Number of roots a BeaconState keeps (slots_per_historical_root).
RootWindow == 2

\* Highest slot of a BeaconState.
MaxSlot == 6

(* ----------------------------- constants ------------------------------- *)

BYTES_PER_CHUNK == 32

(* ------------------------------- bytes --------------------------------- *)

Byte(n) == <<n % 256>>

\* A chunk whose 32 bytes all have the value n.
RawChunk(n) == [i \in 1..BYTES_PER_CHUNK |-> Byte(n)]

\* The byte string seed+1, seed+2, ..., seed+n.
ByteString(n, seed) == [j \in 1..n |-> Byte(seed + j)]

RECURSIVE Flatten(_)
Flatten(chunks) ==
    IF chunks = <<>> THEN <<>> ELSE Head(chunks) \o Flatten(Tail(chunks))

Contains(s, x) == \E k \in 1..Len(s) : s[k] = x

SeqsUpTo(S, n) == UNION {[1..k -> S] : k \in 0..n}

(* -------------------- tree arithmetic and hashing ---------------------- *)

sibling_index(i) == IF i % 2 = 1 THEN i + 1 ELSE i - 1

hash_children(left, right) ==
    [i \in 1..BYTES_PER_CHUNK |-> IF i = 1 THEN <<left, right>> ELSE Byte(0)]

(* --------------------------- the chunk cache --------------------------- *)

\* cache.rs and tree_arithmetic.rs are not among the sources: the cache and
\* sibling_index follow sections 4.1 and 4.2 of the specification.

\* A cache is a function from the positions it holds to their chunks.
CacheNew == <<>>

Present(c, i) == i \in DOMAIN c

CacheInsert(c, i, chunk) == (i :> chunk) @@ c

Positions == 0..MaxIndex

\* is_valid recomputes, on a copy, every position whose two children are
\* present, from the deepest position to the root, and compares position 0.
RECURSIVE Recompute(_, _)
Recompute(c, i) ==
    IF i < 0 THEN c
    ELSE IF Present(c, 2 * i + 1) /\ Present(c, 2 * i + 2)
         THEN Recompute(CacheInsert(c, i, hash_children(c[2 * i + 1], c[2 * i + 2])), i - 1)
         ELSE Recompute(c, i - 1)

CacheIsValid(c, claimed) ==
    LET v == Recompute(c, MaxIndex) IN Present(v, 0) /\ v[0] = claimed

Derivable(c) ==
    {i \in Positions : ~Present(c, i) /\ Present(c, 2 * i + 1) /\ Present(c, 2 * i + 2)}

Max(S) == CHOOSE x \in S : \A y \in S : y <= x

\* fill inserts the hash of the children wherever a position is absent and
\* both children are present, until no such position is left.
RECURSIVE CacheFill(_)
CacheFill(c) ==
    IF Derivable(c) = {} THEN c
    ELSE LET i == Max(Derivable(c))
         IN  CacheFill(CacheInsert(c, i, hash_children(c[2 * i + 1], c[2 * i + 2])))

\* The result of refresh: the cache, and the position of the missing child
\* when an internal position has exactly one child (-1 when none is missing).
\* Every position with two present children is overwritten, bottom-up; the
\* call stops at the first position with one child, keeping what it has
\* written so far.
RECURSIVE CacheRefresh(_, _)
CacheRefresh(c, i) ==
    IF i < 0 THEN [cache |-> c, missing |-> -1]
    ELSE LET l == 2 * i + 1
             r == 2 * i + 2
         IN  IF Present(c, l) /\ Present(c, r)
             THEN CacheRefresh(CacheInsert(c, i, hash_children(c[l], c[r])), i - 1)
             ELSE IF Present(c, l) THEN [cache |-> c, missing |-> r]
             ELSE IF Present(c, r) THEN [cache |-> c, missing |-> l]
             ELSE CacheRefresh(c, i - 1)

(* ----------------------------- the overlay ------------------------------ *)

\* path.rs, field.rs and the overlay of a concrete type are not among the
\* sources: they follow sections 3 and 4.3 of the specification.

\* A path step is a field name or a numeric index.
Ident(s) == [isIndex |-> FALSE, ident |-> s, index |-> 0]

Index(n) == [isIndex |-> TRUE, ident |-> "", index |-> n]

NoStep == Ident("")

to_string(step) == step.ident

Entry(ident, index, offset, size) ==
    [ident |-> ident, index |-> index, offset |-> offset, size |-> size]

Composite(index) == [kind |-> "Composite", index |-> index, entries |-> <<>>]

Length(index) == [kind |-> "Length", index |-> index, entries |-> <<>>]

Primitive(entries) == [kind |-> "Primitive", index |-> entries[1].index, entries |-> entries]

\* The schema bound to the Partial: a container
\*     a: 32-byte value            (chunk 3)
\*     b, c: u64, d: u128          (packed in chunk 4)
\*     v: list of u64              (composite at 2, data chunk 5, length 6)
PackedFields == <<Entry("b", 4, 0, 8), Entry("c", 4, 8, 8), Entry("d", 4, 16, 16)>>

ListItems == <<Entry("0", 5, 0, 8), Entry("1", 5, 8, 8), Entry("2", 5, 16, 8), Entry("3", 5, 24, 8)>>

NodeOk(node) == [ok |-> TRUE, node |-> node, step |-> NoStep]

NodeErr(step) == [ok |-> FALSE, node |-> Composite(0), step |-> step]

get_node(path) ==
    IF path = <<>> THEN NodeErr(NoStep)
    ELSE IF path = <<Ident("a")>> THEN NodeOk(Primitive(<<Entry("a", 3, 0, 32)>>))
    ELSE IF path \in {<<Ident("b")>>, <<Ident("c")>>, <<Ident("d")>>} THEN NodeOk(Primitive(PackedFields))
    ELSE IF path = <<Ident("v")>> THEN NodeOk(Composite(2))
    ELSE IF path = <<Ident("v"), Ident("len")>> THEN NodeOk(Length(6))
    ELSE IF Len(path) = 2 /\ path[1] = Ident("v") /\ path[2].isIndex THEN NodeOk(Primitive(ListItems))
    ELSE NodeErr(path[Len(path)])

get_index(node) == node.index

(* ---------------------------- path resolution -------------------------- *)

Resolved(index, begin, end) ==
    [tag |-> "Ok", index |-> index, begin |-> begin, end |-> end, step |-> NoStep]

ResolveErr(tag, step) ==
    [tag |-> tag, index |-> 0, begin |-> 0, end |-> 0, step |-> step]

\* The first entry the last step of the path matches, or 0.
MatchEntry(entries, path_last) ==
    LET hits == {k \in 1..Len(entries) :
                    IF path_last.isIndex
                    THEN entries[k].offset = path_last.index % 256
                    ELSE entries[k].ident = to_string(path_last)}
    IN  IF hits = {} THEN 0 ELSE CHOOSE k \in hits : \A j \in hits : k <= j

bytes_at_path_helper(path) ==
    IF Len(path) = 0 THEN ResolveErr("EmptyPath", NoStep)
    ELSE LET got == get_node(path)
         IN  IF ~got.ok THEN ResolveErr("InvalidPath", got.step)
             ELSE IF got.node.kind \in {"Composite", "Length"}
                  THEN Resolved(got.node.index, 0, 32)
             ELSE LET k == MatchEntry(got.node.entries, path[Len(path)])
                  IN  IF k = 0 THEN ResolveErr("InvalidPath", path[1])
                      ELSE LET p == got.node.entries[k]
                           IN  Resolved(p.index, p.offset, p.offset + p.size)

(* ------------------------------ the Partial ---------------------------- *)

SerializedPartial(indices, chunks) == [indices |-> indices, chunks |-> chunks]

NoPartial == SerializedPartial(<<>>, <<>>)

\* What an operation returns: Ok with its value, an Error, or a panic.
Res(tag) ==
    [tag |-> tag, index |-> 0, step |-> NoStep, bytes |-> <<>>, sp |-> NoPartial,
     flag |-> FALSE, overlay |-> FALSE]

Ok == [Res("Ok") EXCEPT !.overlay = TRUE]

EmptyPath == Res("EmptyPath")

ChunkNotLoaded(i) == [Res("ChunkNotLoaded") EXCEPT !.index = i, !.overlay = TRUE]

InvalidPath(step) == [Res("InvalidPath") EXCEPT !.step = step, !.overlay = TRUE]

Panic == [Res("Panic") EXCEPT !.overlay = TRUE]

\* An operation's outcome: the cache it leaves and what it returns.
Out(c, r) == [cache |-> c, ret |-> r]

\* A load that keeps the chunk a position already holds.
RECURSIVE LoadFromKeepFirst(_, _, _)
LoadFromKeepFirst(c, partial, i) ==
    IF i >= Len(partial.indices) THEN Out(c, [Ok EXCEPT !.overlay = FALSE])
    ELSE IF (i + 1) * BYTES_PER_CHUNK > Len(partial.chunks) THEN Out(c, [Panic EXCEPT !.overlay = FALSE])
    ELSE LET chunk == SubSeq(partial.chunks, i * BYTES_PER_CHUNK + 1, (i + 1) * BYTES_PER_CHUNK)
             index == partial.indices[i + 1]
         IN  LoadFromKeepFirst(IF Present(c, index) THEN c ELSE CacheInsert(c, index, chunk),
                               partial, i + 1)

RECURSIVE LoadFrom(_, _, _)
LoadFrom(c, partial, i) ==
    IF i >= Len(partial.indices) THEN Out(c, [Ok EXCEPT !.overlay = FALSE])
    ELSE IF (i + 1) * BYTES_PER_CHUNK > Len(partial.chunks) THEN Out(c, [Panic EXCEPT !.overlay = FALSE])
    ELSE LET chunk == SubSeq(partial.chunks, i * BYTES_PER_CHUNK + 1, (i + 1) * BYTES_PER_CHUNK)
         IN  LoadFrom(CacheInsert(c, partial.indices[i + 1], chunk), partial, i + 1)

load_partial(c, partial) == LoadFrom(c, partial, 0)

new(partial) == load_partial(CacheNew, partial).cache

\* A walk whose step forgets to go back to positions counted from 0.
NextVisitorPlusOne(visitor) == (visitor + 1) \div 2

\* A walk that halves the index as if positions were counted from 1.
NextVisitorOneIndexed(visitor) == visitor \div 2

\* visitor /= 2, when 1 indexed
NextVisitor(visitor) == (visitor + 1) \div 2 - 1

\* A walk that also collects the chunk of every node on the path.
RECURSIVE ExtractWalkWithPath(_, _, _, _)
ExtractWalkWithPath(c, visitor, indices, chunks) ==
    IF ~(visitor > 0) THEN [Ok EXCEPT !.sp = SerializedPartial(indices, chunks)]
    ELSE LET sibling == sibling_index(visitor)
             parent == (visitor + 1) \div 2 - 1
         IN  IF ~Present(c, sibling) THEN ChunkNotLoaded(sibling)
             ELSE IF ~Present(c, parent) THEN ChunkNotLoaded(parent)
             ELSE ExtractWalkWithPath(c, parent, indices \o <<sibling, parent>>,
                                      chunks \o c[sibling] \o c[parent])

\* A walk that pushes the sibling's index with the visitor's own chunk.
RECURSIVE ExtractWalkOwnChunk(_, _, _, _)
ExtractWalkOwnChunk(c, visitor, indices, chunks) ==
    IF ~(visitor > 0) THEN [Ok EXCEPT !.sp = SerializedPartial(indices, chunks)]
    ELSE LET sibling == sibling_index(visitor)
             parent == (visitor + 1) \div 2 - 1
         IN  IF ~Present(c, sibling) THEN ChunkNotLoaded(sibling)
             ELSE IF ~Present(c, visitor) THEN ChunkNotLoaded(visitor)
             ELSE ExtractWalkOwnChunk(c, parent, Append(indices, sibling), chunks \o c[visitor])

RECURSIVE ExtractWalk(_, _, _, _)
ExtractWalk(c, visitor, indices, chunks) ==
    IF ~(visitor > 0) THEN [Ok EXCEPT !.sp = SerializedPartial(indices, chunks)]
    ELSE LET sibling == sibling_index(visitor)
             left == 2 * sibling + 1
             right == 2 * sibling + 2
             parent == NextVisitor(visitor)
         IN  IF ~(Contains(indices, left) /\ Contains(indices, right))
             THEN IF ~Present(c, sibling) THEN ChunkNotLoaded(sibling)
                  ELSE ExtractWalk(c, parent, Append(indices, sibling), chunks \o c[sibling])
             ELSE ExtractWalk(c, parent, indices, chunks)

\* extract_partial without its check of the path's length.
extract_partial_unchecked(c, path) ==
    LET got == get_node(path)
    IN  IF ~got.ok THEN InvalidPath(got.step)
        ELSE LET visitor == get_index(got.node)
             IN  IF ~Present(c, visitor) THEN ChunkNotLoaded(visitor)
                 ELSE ExtractWalk(c, visitor, <<visitor>>, c[visitor])

extract_partial(c, path) ==
    IF Len(path) = 0 THEN EmptyPath
    ELSE LET got == get_node(path)
         IN  IF ~got.ok THEN InvalidPath(got.step)
             ELSE LET visitor == get_index(got.node)
                  IN  IF ~Present(c, visitor) THEN ChunkNotLoaded(visitor)
                      ELSE ExtractWalk(c, visitor, <<visitor>>, c[visitor])

\* get_bytes reading an absent chunk as 32 zero bytes.
get_bytes_or_zero(c, path) ==
    IF Len(path) = 0 THEN EmptyPath
    ELSE LET at == bytes_at_path_helper(path)
         IN  IF at.tag = "EmptyPath" THEN EmptyPath
             ELSE IF at.tag = "InvalidPath" THEN InvalidPath(at.step)
             ELSE LET chunk == IF Present(c, at.index) THEN c[at.index] ELSE RawChunk(0)
                  IN  [Ok EXCEPT !.bytes = SubSeq(chunk, at.begin + 1, at.end)]

get_bytes(c, path) ==
    IF Len(path) = 0 THEN EmptyPath
    ELSE LET at == bytes_at_path_helper(path)
         IN  IF at.tag = "EmptyPath" THEN EmptyPath
             ELSE IF at.tag = "InvalidPath" THEN InvalidPath(at.step)
             ELSE IF ~Present(c, at.index) THEN ChunkNotLoaded(at.index)
             ELSE IF at.end > Len(c[at.index]) THEN Panic
             ELSE [Ok EXCEPT !.bytes = SubSeq(c[at.index], at.begin + 1, at.end)]

\* A splice that leaves the first byte of the range as it was.
SpliceSkipFirst(old, bytes, begin, end) ==
    [k \in 1..Len(old) |->
        IF k - 1 > begin /\ k - 1 < end THEN bytes[k - begin] ELSE old[k]]

\* A splice that pads the bytes to a chunk with zeroes around them.
SplicePadded(old, bytes, begin, end) ==
    [k \in 1..Len(old) |->
        IF k - 1 >= begin /\ k - 1 < end THEN bytes[k - begin] ELSE Byte(0)]

\* The spliced chunk: position i (from 0) takes bytes[i - begin] inside
\* [begin, end) and keeps its byte elsewhere.
Splice(old, bytes, begin, end) ==
    [k \in 1..Len(old) |->
        IF k - 1 >= begin /\ k - 1 < end THEN bytes[k - begin] ELSE old[k]]

\* An out-of-range test for a splice that reads bytes[i - begin] at every
\* position from begin on.
SpliceOutOfRangePastEnd(old, bytes, begin, end) ==
    \E k \in 1..Len(old) : k - 1 >= begin /\ k - begin > Len(bytes)

\* The read bytes[i - begin] is out of range for some spliced position.
SpliceOutOfRange(old, bytes, begin, end) ==
    \E k \in 1..Len(old) : k - 1 >= begin /\ k - 1 < end /\ k - begin > Len(bytes)

\* set_bytes storing the bytes as the chunk whenever they fill the range.
set_bytes_whole_value(c, path, bytes) ==
    IF Len(path) = 0 THEN Out(c, EmptyPath)
    ELSE LET at == bytes_at_path_helper(path)
         IN  IF at.tag = "EmptyPath" THEN Out(c, EmptyPath)
             ELSE IF at.tag = "InvalidPath" THEN Out(c, InvalidPath(at.step))
             ELSE IF Len(bytes) = at.end - at.begin THEN Out(CacheInsert(c, at.index, bytes), Ok)
             ELSE IF ~Present(c, at.index) THEN Out(c, ChunkNotLoaded(at.index))
             ELSE IF SpliceOutOfRange(c[at.index], bytes, at.begin, at.end) THEN Out(c, Panic)
             ELSE Out(CacheInsert(c, at.index, Splice(c[at.index], bytes, at.begin, at.end)), Ok)

\* set_bytes rehashing every position above the chunks it holds after a write.
set_bytes_rehashing(c, path, bytes) ==
    IF Len(path) = 0 THEN Out(c, EmptyPath)
    ELSE LET at == bytes_at_path_helper(path)
         IN  IF at.tag = "EmptyPath" THEN Out(c, EmptyPath)
             ELSE IF at.tag = "InvalidPath" THEN Out(c, InvalidPath(at.step))
             ELSE IF Len(bytes) = 32
                  THEN Out(Recompute(CacheInsert(c, at.index, bytes), MaxIndex), Ok)
             ELSE IF ~Present(c, at.index) THEN Out(c, ChunkNotLoaded(at.index))
             ELSE IF SpliceOutOfRange(c[at.index], bytes, at.begin, at.end) THEN Out(c, Panic)
             ELSE Out(Recompute(CacheInsert(c, at.index,
                                            Splice(c[at.index], bytes, at.begin, at.end)),
                                MaxIndex), Ok)

\* set_bytes splicing into a chunk of zeroes when the chunk is absent.
set_bytes_or_zero(c, path, bytes) ==
    IF Len(path) = 0 THEN Out(c, EmptyPath)
    ELSE LET at == bytes_at_path_helper(path)
             old == IF Present(c, at.index) THEN c[at.index] ELSE RawChunk(0)
         IN  IF at.tag = "EmptyPath" THEN Out(c, EmptyPath)
             ELSE IF at.tag = "InvalidPath" THEN Out(c, InvalidPath(at.step))
             ELSE IF Len(bytes) = 32 THEN Out(CacheInsert(c, at.index, bytes), Ok)
             ELSE IF SpliceOutOfRange(old, bytes, at.begin, at.end) THEN Out(c, Panic)
             ELSE Out(CacheInsert(c, at.index, Splice(old, bytes, at.begin, at.end)), Ok)

set_bytes(c, path, bytes) ==
    IF Len(path) = 0 THEN Out(c, EmptyPath)
    ELSE LET at == bytes_at_path_helper(path)
         IN  IF at.tag = "EmptyPath" THEN Out(c, EmptyPath)
             ELSE IF at.tag = "InvalidPath" THEN Out(c, InvalidPath(at.step))
             ELSE IF Len(bytes) = 32 THEN Out(CacheInsert(c, at.index, bytes), Ok)
             ELSE IF ~Present(c, at.index) THEN Out(c, ChunkNotLoaded(at.index))
             ELSE IF SpliceOutOfRange(c[at.index], bytes, at.begin, at.end) THEN Out(c, Panic)
             ELSE Out(CacheInsert(c, at.index, Splice(c[at.index], bytes, at.begin, at.end)), Ok)

is_valid(c, claimed) == CacheIsValid(c, claimed)

\* A single pass from the root down, deriving what the cache of the moment allows.
RECURSIVE FillPassDown(_, _)
FillPassDown(c, i) ==
    IF i > MaxIndex THEN c
    ELSE IF ~Present(c, i) /\ Present(c, 2 * i + 1) /\ Present(c, 2 * i + 2)
         THEN FillPassDown(CacheInsert(c, i, hash_children(c[2 * i + 1], c[2 * i + 2])), i + 1)
         ELSE FillPassDown(c, i + 1)

fill_one_pass(c) == FillPassDown(c, 0)

fill(c) == CacheFill(c)

root(c) == IF Present(c, 0) THEN c[0] ELSE <<>>

\* A refresh that derives the absent positions and keeps the cached ones.
refresh_absent_only(c) == Out(CacheFill(c), [Ok EXCEPT !.overlay = FALSE])

refresh(c) ==
    LET r == CacheRefresh(c, MaxIndex)
    IN  Out(r.cache, IF r.missing < 0 THEN [Ok EXCEPT !.overlay = FALSE]
                     ELSE [ChunkNotLoaded(r.missing) EXCEPT !.overlay = FALSE])

(* ------------------------- states and the store ------------------------ *)

\* types::BeaconState and the Store are not among the sources: a state keeps
\* the block roots and state roots of the RootWindow slots before its own in
\* two rings indexed by slot modulo RootWindow, as the tests of iter.rs set
\* them up, and the store maps a state root to a state.
BlockRootOf(t) == <<"block", t>>

StateRootOf(t) == <<"state", t>>

ZeroHash == <<"zero", 0>>

\* The newest slot below s whose ring index is i, or -1.
NewestAt(s, i) ==
    LET older == {t \in 0..(s - 1) : t % RootWindow = i}
    IN  IF older = {} THEN -1 ELSE CHOOSE t \in older : \A u \in older : u <= t

\* The state of the chain at slot s.
StateAt(s) ==
    [slot |-> s,
     latest_block_roots |->
        [i \in 0..(RootWindow - 1) |->
            IF NewestAt(s, i) < 0 THEN ZeroHash ELSE BlockRootOf(NewestAt(s, i))],
     latest_state_roots |->
        [i \in 0..(RootWindow - 1) |->
            IF NewestAt(s, i) < 0 THEN ZeroHash ELSE StateRootOf(NewestAt(s, i))]]

RootOk(r) == [ok |-> TRUE, root |-> r]

SlotOutOfBounds == [ok |-> FALSE, root |-> ZeroHash]

get_latest_roots_index(state, slot) ==
    IF slot < state.slot /\ state.slot <= slot + RootWindow THEN slot % RootWindow ELSE -1

get_block_root(state, slot) ==
    LET i == get_latest_roots_index(state, slot)
    IN  IF i < 0 THEN SlotOutOfBounds ELSE RootOk(state.latest_block_roots[i])

get_state_root(state, slot) ==
    LET i == get_latest_roots_index(state, slot)
    IN  IF i < 0 THEN SlotOutOfBounds ELSE RootOk(state.latest_state_roots[i])

get_oldest_state_root(state) ==
    get_state_root(state, IF state.slot > RootWindow THEN state.slot - RootWindow ELSE 0)

Slots == 0..MaxSlot

\* A store maps the state root of a slot to the slot of the state kept under
\* it, or to -1 when it keeps none.
CanonicalStore == [t \in Slots |-> t]

StoreGet(st, r) ==
    IF r[1] = "state" /\ r[2] \in DOMAIN st /\ st[r[2]] >= 0
    THEN [found |-> TRUE, state |-> StateAt(st[r[2]])]
    ELSE [found |-> FALSE, state |-> StateAt(0)]

(* ---------------------------- the iterators ---------------------------- *)

Iter(kind, slot, state) == [kind |-> kind, slot |-> slot, beacon_state |-> state]

NoIter == Iter("none", 0, StateAt(0))

\* What next() returns and leaves: the iterator, Some((root, slot)) or None,
\* and how the store was read ("-" not read, "hit", "err", "absent").
Yield(iter, r, slot, read) ==
    [iter |-> iter, some |-> TRUE, item |-> <<r, slot>>, read |-> read]

None(iter, read) ==
    [iter |-> iter, some |-> FALSE, item |-> <<ZeroHash, 0>>, read |-> read]

\* An end test that only knows the genesis slot.
IterEndedAtZero(iter) == iter.slot = 0

\* An end test that only knows the slot of the held state.
IterEndedPastState(iter) == iter.slot > iter.beacon_state.slot

\* The iterator is below genesis or ahead of the state it holds.
IterEnded(iter) == iter.slot = 0 \/ iter.slot > iter.beacon_state.slot

\* StateRootsIterator::next; err says whether a read of the store fails.
state_roots_next(iter, st, err) ==
    IF IterEnded(iter) THEN None(iter, "-")
    ELSE LET slot == iter.slot - 1
             stepped == [iter EXCEPT !.slot = slot]
             found == get_state_root(iter.beacon_state, slot)
         IN  IF found.ok THEN Yield(stepped, found.root, slot, "-")
             ELSE LET new_state_root == get_oldest_state_root(iter.beacon_state)
                  IN  IF ~new_state_root.ok THEN None(stepped, "-")
                      ELSE IF err THEN None(stepped, "err")
                      ELSE LET got == StoreGet(st, new_state_root.root)
                           IN  IF ~got.found THEN None(stepped, "absent")
                               ELSE LET loaded == [stepped EXCEPT !.beacon_state = got.state]
                                        again == get_state_root(got.state, slot)
                                    IN  IF again.ok THEN Yield(loaded, again.root, slot, "hit")
                                        ELSE None(loaded, "hit")

\* BlockRootsIterator::next; err says whether a read of the store fails.
block_roots_next(iter, st, err) ==
    IF IterEnded(iter) THEN None(iter, "-")
    ELSE LET slot == iter.slot - 1
             stepped == [iter EXCEPT !.slot = slot]
             found == get_block_root(iter.beacon_state, slot)
         IN  IF found.ok THEN Yield(stepped, found.root, slot, "-")
             ELSE LET new_state_root == get_oldest_state_root(iter.beacon_state)
                  IN  IF ~new_state_root.ok THEN None(stepped, "-")
                      ELSE IF err THEN None(stepped, "err")
                      ELSE LET got == StoreGet(st, new_state_root.root)
                           IN  IF ~got.found THEN None(stepped, "absent")
                               ELSE LET loaded == [stepped EXCEPT !.beacon_state = got.state]
                                        again == get_block_root(got.state, slot)
                                    IN  IF again.ok THEN Yield(loaded, again.root, slot, "hit")
                                        ELSE None(loaded, "hit")

\* What is remembered of an iterator: the arguments of new(), the items
\* yielded in order, the last return, how the last call read the store, and
\* whether any read so far failed or found nothing.
History(start, held, yielded, last, read, clean) ==
    [start |-> start, held |-> held, yielded |-> yielded, last |-> last, read |-> read,
     clean |-> clean]

NoHistory == History(0, 0, <<>>, "-", "-", TRUE)

\* The loop of extract_partial between two iterations: the index it started
\* from, visitor, the sibling computed last, the iterations made, the indices
\* pushed, and whether the loop is running or has returned an error.
Walk(leaf, visitor, sibling, steps, indices, status) ==
    [leaf |-> leaf, visitor |-> visitor, sibling |-> sibling, steps |-> steps,
     indices |-> indices, status |-> status]

NoWalk == Walk(0, 0, 0, 0, <<>>, "none")

(* ------------------------------ the inputs ----------------------------- *)

\* The positions of the schema's bottom chunks.
LeafPositions == {3, 4, 5, 6}

RECURSIVE Ascending(_)
Ascending(S) ==
    IF S = {} THEN <<>>
    ELSE LET m == CHOOSE x \in S : \A y \in S : x <= y
         IN  <<m>> \o Ascending(S \ {m})

\* The serialized partial carrying, for each position of S in ascending
\* order, the chunk whose bytes all equal the position.
PartialOf(S) ==
    LET idx == Ascending(S)
    IN  SerializedPartial(idx, Flatten([k \in 1..Len(idx) |-> RawChunk(idx[k])]))

InitPartials == {PartialOf(S) : S \in SUBSET LeafPositions}

\* Partials loaded later: up to MaxLoad positions, each with a chunk of 0xC8.
LoadInputs ==
    {SerializedPartial(idx, Flatten([k \in 1..Len(idx) |-> RawChunk(200)])) :
        idx \in SeqsUpTo(Positions, MaxLoad)}

Paths ==
    {<<>>, <<Ident("a")>>, <<Ident("b")>>, <<Ident("c")>>, <<Ident("v")>>,
     <<Ident("v"), Ident("len")>>, <<Ident("v"), Index(8)>>, <<Ident("v"), Index(1)>>,
     <<Ident("zz")>>}

WriteInputs == {ByteString(n, 0) : n \in {4, 8, 16, 32}}

RootInputs(c) ==
    {RawChunk(0)} \cup {c[i] : i \in {0} \cap DOMAIN c}
                  \cup {Recompute(c, MaxIndex)[i] : i \in {0} \cap DOMAIN Recompute(c, MaxIndex)}

(* --------------------------- the state machine ------------------------- *)

Call(name, path, bytes, sp, claimed) ==
    [name |-> name, path |-> path, bytes |-> bytes, sp |-> sp, claimed |-> claimed]

Init ==
    \E sp \in InitPartials :
        /\ cache = new(sp)
        /\ op = Call("new", <<>>, <<>>, sp, <<>>)
        /\ ret = Res("Ok")
        /\ nops = 0
        /\ it = NoIter
        /\ chain = CanonicalStore
        /\ hist = NoHistory
        /\ walk = NoWalk

Step(call, out) ==
    /\ nops < MaxOps
    /\ cache' = out.cache
    /\ op' = call
    /\ ret' = out.ret
    /\ nops' = nops + 1
    /\ UNCHANGED <<it, chain, hist, walk>>

LoadPartial ==
    \E sp \in LoadInputs :
        Step(Call("load_partial", <<>>, <<>>, sp, <<>>), load_partial(cache, sp))

ExtractPartial ==
    \E path \in Paths :
        Step(Call("extract_partial", path, <<>>, NoPartial, <<>>),
             Out(cache, extract_partial(cache, path)))

GetBytes ==
    \E path \in Paths :
        Step(Call("get_bytes", path, <<>>, NoPartial, <<>>),
             Out(cache, get_bytes(cache, path)))

SetBytes ==
    \E path \in Paths, bytes \in WriteInputs :
        Step(Call("set_bytes", path, bytes, NoPartial, <<>>), set_bytes(cache, path, bytes))

IsValid ==
    \E claimed \in RootInputs(cache) :
        Step(Call("is_valid", <<>>, <<>>, NoPartial, claimed),
             Out(cache, [Res("Ok") EXCEPT !.flag = is_valid(cache, claimed)]))

Fill ==
    Step(Call("fill", <<>>, <<>>, NoPartial, <<>>), Out(fill(cache), Res("Ok")))

Root ==
    Step(Call("root", <<>>, <<>>, NoPartial, <<>>),
         Out(cache, [Res("Ok") EXCEPT !.flag = Present(cache, 0), !.bytes = root(cache)]))

Refresh ==
    Step(Call("refresh", <<>>, <<>>, NoPartial, <<>>), refresh(cache))

Next ==
    \/ LoadPartial
    \/ ExtractPartial
    \/ GetBytes
    \/ SetBytes
    \/ IsValid
    \/ Fill
    \/ Root
    \/ Refresh

Spec == Init /\ [][Next]_vars

(* ------------------- loads that repeat an index ------------------------ *)

\* The positions the repeated loads address: the root and two bottom chunks.
RepeatPositions == {0, 3, 4}

\* Serialized partials of up to MaxRepeat pairs over RepeatPositions, an
\* index possibly more than once; the k-th pair carries the chunk of 0xC8 + k.
RepeatedLoadInputs ==
    {SerializedPartial(idx, Flatten([k \in 1..Len(idx) |-> RawChunk(200 + k)])) :
        idx \in SeqsUpTo(RepeatPositions, MaxRepeat)}

\* One load_partial on the Partial that new returned.
LoadRepeated ==
    /\ nops = 0
    /\ \E sp \in RepeatedLoadInputs :
            Step(Call("load_partial", <<>>, <<>>, sp, <<>>), load_partial(cache, sp))

NextLoad == LoadRepeated

SpecLoad == Init /\ [][NextLoad]_vars

(* ------------------- reads through numeric steps ----------------------- *)

\* Numeric last steps: the offsets of the list's entries, numbers between
\* them, and numbers that need more than 8 bits.
NumericSteps == {0, 8, 16, 24, 1, 32, 255, 256, 264, 511, 512}

NumericPaths == {<<Ident("v"), Index(n)>> : n \in NumericSteps}

\* get_bytes with a path that ends in a numeric step.
GetBytesNumeric ==
    \E path \in NumericPaths :
        Step(Call("get_bytes", path, <<>>, NoPartial, <<>>),
             Out(cache, get_bytes(cache, path)))

NextResolve == GetBytesNumeric

SpecResolve == Init /\ [][NextResolve]_vars

(* ------------------- the proof walk, step by step ---------------------- *)

\* The caches of the walk: every position up to MaxLeaf, or all but one.
WalkCaches ==
    {[i \in (0..MaxLeaf) \ {missing} |-> RawChunk(i)] : missing \in -1..MaxLeaf}

\* extract_partial has found the chunk of the node of its path and enters
\* the loop.
InitWalk ==
    \E leaf \in 0..MaxLeaf, c \in WalkCaches :
        /\ Present(c, leaf)
        /\ cache = c
        /\ walk = Walk(leaf, leaf, leaf, 0, <<leaf>>, "walking")
        /\ op = Call("extract_partial", <<>>, <<>>, NoPartial, <<>>)
        /\ ret = Res("Ok")
        /\ nops = 0
        /\ it = NoIter
        /\ chain = CanonicalStore
        /\ hist = NoHistory

\* One iteration of `while visitor > 0`.
WalkStep ==
    /\ walk.status = "walking"
    /\ walk.visitor > 0
    /\ LET visitor == walk.visitor
           sibling == sibling_index(visitor)
           left == 2 * sibling + 1
           right == 2 * sibling + 2
           push == ~(Contains(walk.indices, left) /\ Contains(walk.indices, right))
       IN  IF push /\ ~Present(cache, sibling)
           THEN walk' = [walk EXCEPT !.sibling = sibling, !.status = "ChunkNotLoaded"]
           ELSE walk' = [walk EXCEPT !.sibling = sibling,
                                     !.indices = IF push THEN Append(@, sibling) ELSE @,
                                     !.visitor = NextVisitor(visitor),
                                     !.steps = @ + 1]
    /\ UNCHANGED <<cache, op, ret, nops, it, chain, hist>>

NextWalk == WalkStep

\* The loop is sequential code: an iteration that can run does run.
SpecWalk == InitWalk /\ [][NextWalk]_vars /\ WF_vars(WalkStep)

(* ---------------------- the iterators' state machine ------------------- *)

\* The stores: the canonical one, and the canonical one with the entry of one
\* state root missing or holding the state of another slot.
Stores ==
    {CanonicalStore} \cup
    {[CanonicalStore EXCEPT ![t] = x] : t \in Slots, x \in (Slots \cup {-1})}

\* BlockRootsIterator::new or StateRootsIterator::new on the state of the
\* chain at slot held, with any start_slot.
InitIter ==
    \E kind \in {"block", "state"}, held \in Slots, start \in 0..(MaxSlot + 1), st \in Stores :
        /\ it = Iter(kind, start, StateAt(held))
        /\ chain = st
        /\ hist = History(start, held, <<>>, "-", "-", TRUE)
        /\ cache = CacheNew
        /\ op = Call("new", <<>>, <<>>, NoPartial, <<>>)
        /\ ret = Res("Ok")
        /\ nops = 0
        /\ walk = NoWalk

Returned(r) ==
    /\ it' = r.iter
    /\ hist' = [hist EXCEPT !.yielded = IF r.some THEN Append(@, r.item) ELSE @,
                            !.last = IF r.some THEN "Some" ELSE "None",
                            !.read = r.read,
                            !.clean = @ /\ r.read \in {"-", "hit"}]
    /\ UNCHANGED <<chain, cache, op, ret, nops, walk>>

BlockRootsNext ==
    /\ it.kind = "block"
    /\ \E err \in BOOLEAN : Returned(block_roots_next(it, chain, err))

StateRootsNext ==
    /\ it.kind = "state"
    /\ \E err \in BOOLEAN : Returned(state_roots_next(it, chain, err))

NextIter ==
    \/ BlockRootsNext
    \/ StateRootsNext

SpecIter == InitIter /\ [][NextIter]_vars

(* ------------------------- helpers of the claims ----------------------- *)

\* The strict ancestors of a position, the root included.
RECURSIVE Ancestors(_)
Ancestors(i) ==
    IF i <= 0 THEN {} ELSE {(i + 1) \div 2 - 1} \cup Ancestors((i + 1) \div 2 - 1)

HashRuleAt(c, i) ==
    /\ Present(c, i) /\ Present(c, 2 * i + 1) /\ Present(c, 2 * i + 2)
    /\ c[i] = hash_children(c[2 * i + 1], c[2 * i + 2])

\* The leaf, its ancestors and their siblings are present and every ancestor
\* is the hash of its children.
PathConsistent(c, leaf) ==
    Present(c, leaf) /\ \A a \in Ancestors(leaf) : HashRuleAt(c, a)

\* A serialized partial without its k-th (index, chunk) pair.
RemovePair(sp, k) ==
    SerializedPartial(
        SubSeq(sp.indices, 1, k - 1) \o SubSeq(sp.indices, k + 1, Len(sp.indices)),
        SubSeq(sp.chunks, 1, (k - 1) * BYTES_PER_CHUNK)
            \o SubSeq(sp.chunks, k * BYTES_PER_CHUNK + 1, Len(sp.chunks)))

\* The cache of a fresh Partial loaded with sp and filled.
Rebuilt(sp) == fill(load_partial(CacheNew, sp).cache)

(* ------------------------------- claims -------------------------------- *)

\* C1: when extract_partial(p) is called on a Partial whose leaf-to-root path
\* of p (with the siblings) is present and consistent with the hash rule, it
\* succeeds, and loading its result into a fresh Partial, fill() and
\* is_valid(R), R the source's root chunk, gives true.
ExtractSufficient ==
    (/\ op.name = "extract_partial" /\ op.path # <<>> /\ get_node(op.path).ok
     /\ PathConsistent(cache, get_index(get_node(op.path).node)))
        => /\ ret.tag = "Ok"
           /\ is_valid(Rebuilt(ret.sp), cache[0])

\* A proof of a leaf at depth 2 was extracted from a consistent tree.
ExtractSufficientWitness ==
    /\ op.name = "extract_partial" /\ ret.tag = "Ok"
    /\ get_index(get_node(op.path).node) \in LeafPositions
    /\ PathConsistent(cache, get_index(get_node(op.path).node))
    /\ Len(ret.sp.indices) = 3

\* C2: when extract_partial(p) succeeds for a leaf other than the root, then
\* after removing any single (index, chunk) pair from its result, loading the
\* rest into a fresh Partial and fill(), position 0 is absent.
ExtractMinimal ==
    (op.name = "extract_partial" /\ ret.tag = "Ok" /\ ret.sp.indices[1] # 0)
        => \A k \in 1..Len(ret.sp.indices) : ~Present(Rebuilt(RemovePair(ret.sp, k)), 0)

\* A proof of three chunks was extracted, and the whole of it rebuilds the root.
ExtractMinimalWitness ==
    /\ op.name = "extract_partial" /\ ret.tag = "Ok"
    /\ Len(ret.sp.indices) = 3 /\ ret.sp.indices[1] # 0
    /\ Present(Rebuilt(ret.sp), 0)

\* The range a non-empty path of a set_bytes or get_bytes call resolves to.
At(path) == bytes_at_path_helper(path)

ResolvesTo(path) == path # <<>> /\ At(path).tag = "Ok"

\* C3, as stated: after set_bytes(p, b) with p non-empty resolving to
\* (index, begin, end) and len(b) = end - begin, get_bytes(p) returns b.
RoundTripAlways ==
    (/\ op.name = "set_bytes" /\ ResolvesTo(op.path)
     /\ Len(op.bytes) = At(op.path).end - At(op.path).begin)
        => get_bytes(cache, op.path) = [Ok EXCEPT !.bytes = op.bytes]

\* C3, amended: after a set_bytes(p, b) that returned Ok, with p non-empty
\* resolving to (index, begin, end) and len(b) = end - begin, get_bytes(p)
\* returns exactly b.
RoundTrip ==
    (/\ op.name = "set_bytes" /\ ResolvesTo(op.path) /\ ret.tag = "Ok"
     /\ Len(op.bytes) = At(op.path).end - At(op.path).begin)
        => get_bytes(cache, op.path) = [Ok EXCEPT !.bytes = op.bytes]

\* Eight bytes were spliced at offset 8 of a packed chunk.
RoundTripWitness ==
    /\ op.name = "set_bytes" /\ ResolvesTo(op.path) /\ ret.tag = "Ok"
    /\ At(op.path).begin = 8 /\ At(op.path).end = 16 /\ Len(op.bytes) = 8

\* The bytes of old and new outside [begin, end) are the same.
SameOutside(before, after, begin, end) ==
    /\ Len(after) = Len(before)
    /\ \A k \in 1..Len(before) : (k - 1 < begin \/ k - 1 >= end) => after[k] = before[k]

\* C4, as stated: a set_bytes(p, b) that succeeds on a present chunk, with p
\* resolving to [begin, end) of it, leaves every byte of the chunk outside
\* [begin, end) as it was, for every accepted b.
WritePreservesOutsideAlways ==
    [][(/\ op'.name = "set_bytes" /\ ResolvesTo(op'.path) /\ ret'.tag = "Ok"
        /\ Present(cache, At(op'.path).index))
          => SameOutside(cache[At(op'.path).index], cache'[At(op'.path).index],
                         At(op'.path).begin, At(op'.path).end)]_vars

\* C4, amended: a set_bytes(p, b) that succeeds with len(b) other than 32,
\* with p resolving to [begin, end) of the chunk at index, leaves every byte
\* of that chunk outside [begin, end) as it was.
WritePreservesOutside ==
    [][(/\ op'.name = "set_bytes" /\ ResolvesTo(op'.path) /\ ret'.tag = "Ok"
        /\ Len(op'.bytes) # 32)
          => /\ Present(cache, At(op'.path).index)
             /\ SameOutside(cache[At(op'.path).index], cache'[At(op'.path).index],
                            At(op'.path).begin, At(op'.path).end)]_vars

\* A splice into [8, 16) succeeded: bytes on both sides of the range stay.
WritePreservesOutsideWitness ==
    /\ op.name = "set_bytes" /\ ret.tag = "Ok" /\ Len(op.bytes) = 16
    /\ ResolvesTo(op.path) /\ At(op.path).begin = 8 /\ At(op.path).end = 16
    /\ cache[At(op.path).index][1] # op.bytes[1]

\* Every position of the model is present and every position with two
\* children is the hash of them.
FullyPopulated(c) == DOMAIN c = Positions

Consistent(c) ==
    \A i \in Positions : (2 * i + 2 <= MaxIndex) => HashRuleAt(c, i)

\* The cache with byte k of the chunk at position i changed.
Tamper(c, i, k) ==
    [c EXCEPT ![i] = [@ EXCEPT ![k] = IF @ = Byte(255) THEN Byte(254) ELSE Byte(255)]]

\* C5: for a fully populated Partial consistent with the hash rule, with root
\* chunk R, is_valid(R) is true, and after changing any single byte of any
\* single stored chunk is_valid(R) is false.
TamperDetected ==
    (FullyPopulated(cache) /\ Consistent(cache))
        => /\ is_valid(cache, cache[0])
           /\ \A i \in Positions, k \in 1..BYTES_PER_CHUNK :
                  ~is_valid(Tamper(cache, i, k), cache[0])

\* C6: extract_partial, get_bytes and set_bytes with a path of zero steps
\* return EmptyPath without consulting the overlay and leave the cache as
\* it was, in every cache state and for every bytes argument.
EmptyPathRejected ==
    [][(op'.name \in {"extract_partial", "get_bytes", "set_bytes"} /\ op'.path = <<>>)
          => (ret' = EmptyPath /\ ~ret'.overlay /\ cache' = cache)]_vars

\* set_bytes was called with an empty path and 32 bytes on a loaded Partial.
EmptyPathRejectedWitness ==
    /\ op.name = "set_bytes" /\ op.path = <<>> /\ Len(op.bytes) = 32
    /\ ret.tag = "EmptyPath" /\ cache # CacheNew

\* C7: get_bytes and extract_partial with a non-empty path resolving to a
\* chunk index absent from the cache return ChunkNotLoaded(that index) and
\* nothing else.
MissingLeafOnRead ==
    /\ (op.name = "get_bytes" /\ ResolvesTo(op.path) /\ ~Present(cache, At(op.path).index))
          => ret = ChunkNotLoaded(At(op.path).index)
    /\ (op.name = "extract_partial" /\ op.path # <<>> /\ get_node(op.path).ok
          /\ ~Present(cache, get_index(get_node(op.path).node)))
          => ret = ChunkNotLoaded(get_index(get_node(op.path).node))

\* get_bytes addressed the absent chunk 4 while its sibling 3 and its
\* ancestor 1 were loaded.
MissingLeafOnReadWitness ==
    /\ op.name = "get_bytes" /\ ResolvesTo(op.path) /\ At(op.path).index = 4
    /\ ~Present(cache, 4) /\ Present(cache, 3) /\ Present(cache, 1)
    /\ ret.tag = "ChunkNotLoaded"

\* C8, as stated: set_bytes(p, b) with p non-empty resolving to an index the
\* cache does not hold returns ChunkNotLoaded(index) and leaves the cache
\* unchanged, for every b.
MissingChunkOnWriteAlways ==
    [][(op'.name = "set_bytes" /\ ResolvesTo(op'.path) /\ ~Present(cache, At(op'.path).index))
          => (ret' = ChunkNotLoaded(At(op'.path).index) /\ cache' = cache)]_vars

\* C8, amended: set_bytes(p, b) with p non-empty resolving to an index the
\* cache does not hold returns ChunkNotLoaded(index) and leaves the cache
\* unchanged for every b of a length other than 32; with b of exactly 32
\* bytes it returns Ok and stores b at index.
MissingChunkOnWrite ==
    [][(op'.name = "set_bytes" /\ ResolvesTo(op'.path) /\ ~Present(cache, At(op'.path).index))
          => IF Len(op'.bytes) # 32
             THEN ret' = ChunkNotLoaded(At(op'.path).index) /\ cache' = cache
             ELSE ret' = Ok /\ cache' = CacheInsert(cache, At(op'.path).index, op'.bytes)]_vars

\* A splice of 8 bytes was refused because chunk 4 is not loaded.
MissingChunkOnWriteWitness ==
    /\ op.name = "set_bytes" /\ ResolvesTo(op.path) /\ Len(op.bytes) = 8
    /\ ret = ChunkNotLoaded(4) /\ ~Present(cache, 4) /\ cache # CacheNew

\* C9: after fill() no position is absent while both its children are
\* present, the chunks present before are unchanged, and a second fill()
\* leaves the cache as the first did.
FillFixedPoint ==
    [][op'.name = "fill"
          => /\ \A i \in Positions :
                    (Present(cache', 2 * i + 1) /\ Present(cache', 2 * i + 2)) => Present(cache', i)
             /\ \A i \in DOMAIN cache : Present(cache', i) /\ cache'[i] = cache[i]
             /\ fill(cache') = cache']_vars

\* fill() derived the root from the four bottom chunks alone: two levels.
FillFixedPointWitness ==
    /\ op.name = "fill" /\ nops = 1
    /\ DOMAIN cache = Positions
    /\ cache[0] = hash_children(cache[1], cache[2])

\* The present positions with no present descendant.
Leaves(c) == {i \in DOMAIN c : \A j \in DOMAIN c : i \notin Ancestors(j)}

InternalOf(c) == UNION {Ancestors(i) : i \in Leaves(c)}

\* The caches with the leaves of c and any chunks at its internal positions.
InternalVariants(c) ==
    LET leaves == [i \in Leaves(c) |-> c[i]]
    IN  {v @@ leaves :
            v \in UNION {[X -> {RawChunk(7), hash_children(RawChunk(7), RawChunk(9))}] :
                            X \in SUBSET InternalOf(c)}}

SameLeaves(c, d) ==
    Leaves(c) = Leaves(d) /\ \A i \in Leaves(c) : c[i] = d[i]

\* C10: when refresh() succeeds on a cache, then on every cache with the same
\* leaf positions and leaf chunks, whatever its internal chunks and root, a
\* successful refresh() leaves the same chunks at every position.
RefreshDeterministic ==
    [][(op'.name = "refresh" /\ ret'.tag = "Ok")
          => \A d \in InternalVariants(cache) :
                /\ SameLeaves(d, cache)
                /\ refresh(d).ret.tag = "Ok" => refresh(d).cache = cache']_vars

\* refresh() succeeded on a cache of all seven positions.
RefreshDeterministicWitness ==
    /\ op.name = "refresh" /\ ret.tag = "Ok"
    /\ Positions \subseteq DOMAIN cache
    /\ Cardinality(InternalOf(cache)) = 3

(* ----------------------- claims on the iterators ----------------------- *)

\* The root the chain records for a slot, for an iterator of this kind.
RecordedRoot(kind, t) == IF kind = "block" THEN BlockRootOf(t) ELSE StateRootOf(t)

\* The items yielded so far are those of the slots start-1, start-2, ... in
\* that order, each with the recorded root.
YieldedDownFrom(kind, start, yielded) ==
    \A k \in 1..Len(yielded) : yielded[k] = <<RecordedRoot(kind, start - k), start - k>>

\* C11: an iterator created with start_slot s <= beacon_state.slot, over a
\* store that returns every earlier state, yields the s items of the slots
\* s-1, ..., 0 in that order, each with the root recorded for its slot, and
\* only then None: after any number of calls it has yielded one item for
\* every slot it has stepped over, and it has returned None only at slot 0.
GapFreeToGenesis ==
    (it.kind \in {"block", "state"} /\ hist.start <= hist.held
        /\ chain = CanonicalStore /\ hist.clean)
        => /\ Len(hist.yielded) = hist.start - it.slot
           /\ YieldedDownFrom(it.kind, hist.start, hist.yielded)
           /\ hist.last = "None" => (it.slot = 0 /\ Len(hist.yielded) = hist.start)

\* C12: BlockRootsIterator::next returns None and leaves the slot and the
\* held state as they were when the slot is 0 or exceeds the held state's
\* slot, and returns None when the held state lacks the root of the slot and
\* the read of the earlier state fails or finds nothing.
EndConditions ==
    [][it.kind = "block"
          => /\ (it.slot = 0 \/ it.slot > it.beacon_state.slot)
                    => (hist'.last = "None" /\ it' = it /\ hist'.yielded = hist.yielded)
             /\ (/\ it.slot > 0 /\ it.slot <= it.beacon_state.slot
                 /\ ~get_block_root(it.beacon_state, it.slot - 1).ok
                 /\ hist'.read \in {"err", "absent"})
                    => (hist'.last = "None" /\ hist'.yielded = hist.yielded)]_iterVars

\* A block iterator that had yielded roots returned None because the store
\* keeps no state under the oldest state root.
EndConditionsWitness ==
    /\ it.kind = "block" /\ hist.last = "None" /\ hist.read = "absent"
    /\ Len(hist.yielded) > 0 /\ it.slot > 0

\* C20: over any calls of next() and any store, the slot of an iterator
\* never increases, never goes below 0 and falls by at most 1 a call, and
\* every yielded item has a slot below that of every item yielded before.
SlotsMoveDown ==
    [][it.kind \in {"block", "state"}
          => /\ it'.slot <= it.slot /\ it'.slot >= 0 /\ it.slot - it'.slot <= 1
             /\ \A j, k \in 1..Len(hist'.yielded) :
                    j < k => hist'.yielded[k][2] < hist'.yielded[j][2]]_iterVars

\* An iterator yielded three items after a read of the store had failed.
SlotsMoveDownWitness ==
    /\ it.kind = "state" /\ Len(hist.yielded) >= 3 /\ ~hist.clean /\ hist.last = "Some"

(* ------------------- claims on the shape of the data ------------------- *)

\* The position whose children are 2p+1 and 2p+2, for a child i > 0.
ParentOf(i) == CHOOSE p \in 0..i : i \in {2 * p + 1, 2 * p + 2}

\* The other child of the parent of i.
OtherChild(i) == CHOOSE j \in {2 * ParentOf(i) + 1, 2 * ParentOf(i) + 2} : j # i

\* The siblings of the nodes on the path from i up to, not including, the root.
RECURSIVE SiblingsUp(_)
SiblingsUp(i) == IF i = 0 THEN <<>> ELSE <<OtherChild(i)>> \o SiblingsUp(ParentOf(i))

\* The number of edges between i and the root.
RECURSIVE Depth(_)
Depth(i) == IF i = 0 THEN 0 ELSE 1 + Depth(ParentOf(i))

\* The k-th (from 1) 32-byte slice of a chunk buffer.
Slice(chunks, k) == SubSeq(chunks, (k - 1) * BYTES_PER_CHUNK + 1, k * BYTES_PER_CHUNK)

\* C13: when extract_partial(p) succeeds for a leaf at index L, the returned
\* indices are L followed by the sibling of each node on the path from L up
\* to, not including, the root: no duplicates, 0 only if L = 0, depth(L) + 1
\* of them; the chunk buffer is 32 x len(indices) bytes long and its i-th 32
\* bytes are the cached chunk of indices[i].
ExtractShape ==
    (op.name = "extract_partial" /\ ret.tag = "Ok")
        => LET L == get_index(get_node(op.path).node)
               indices == ret.sp.indices
           IN  /\ indices = <<L>> \o SiblingsUp(L)
               /\ \A j, k \in 1..Len(indices) : j # k => indices[j] # indices[k]
               /\ (\E k \in 1..Len(indices) : indices[k] = 0) => L = 0
               /\ Len(indices) = Depth(L) + 1
               /\ Len(ret.sp.chunks) = BYTES_PER_CHUNK * Len(indices)
               /\ \A k \in 1..Len(indices) :
                      /\ Present(cache, indices[k])
                      /\ Slice(ret.sp.chunks, k) = cache[indices[k]]

\* A proof of a leaf at depth 2 was extracted: three indices whose chunks
\* differ from one another.
ExtractShapeWitness ==
    /\ op.name = "extract_partial" /\ ret.tag = "Ok"
    /\ Len(ret.sp.indices) = 3
    /\ Slice(ret.sp.chunks, 1) # Slice(ret.sp.chunks, 2)
    /\ Slice(ret.sp.chunks, 2) # Slice(ret.sp.chunks, 3)
    /\ Slice(ret.sp.chunks, 1) # Slice(ret.sp.chunks, 3)

\* C14: starting from an empty Partial (or one made by new), after any
\* load_partial with a buffer of 32 x count(indices) bytes, set_bytes, fill
\* and refresh calls, every chunk in the cache is exactly 32 bytes long, and
\* every SerializedPartial extract_partial returns has a buffer of
\* 32 x count(indices) bytes.
ChunkSize ==
    /\ \A i \in DOMAIN cache : Len(cache[i]) = BYTES_PER_CHUNK
    /\ (op.name = "extract_partial" /\ ret.tag = "Ok")
            => Len(ret.sp.chunks) = BYTES_PER_CHUNK * Len(ret.sp.indices)

\* A proof was extracted from a cache holding a chunk that was spliced or
\* hashed, not loaded.
ChunkSizeWitness ==
    /\ op.name = "extract_partial" /\ ret.tag = "Ok" /\ nops = 2
    /\ \E i \in DOMAIN cache : cache[i] \notin {RawChunk(i), RawChunk(200)}

\* C15: a successful set_bytes(p, b), p resolving to index, changes the cache
\* at position index only: every other position, the ancestors of index and
\* the root included, keeps its presence and its chunk, so root() returns
\* after the call what it returned before it.
SetBytesFrame ==
    [][(op'.name = "set_bytes" /\ ret'.tag = "Ok")
          => LET index == At(op'.path).index
             IN  /\ \A i \in (DOMAIN cache \cup DOMAIN cache') \ {index} :
                        /\ Present(cache, i) /\ Present(cache', i)
                        /\ cache'[i] = cache[i]
                 /\ index # 0 => root(cache') = root(cache)]_vars

\* A write changed a chunk under a stored root, which no longer is the hash
\* of what lies below it.
SetBytesFrameWitness ==
    /\ op.name = "set_bytes" /\ ret.tag = "Ok"
    /\ Present(cache, 0)
    /\ Present(Recompute(cache, MaxIndex), 0)
    /\ Recompute(cache, MaxIndex)[0] # cache[0]
    /\ cache[At(op.path).index] \notin {RawChunk(At(op.path).index), RawChunk(200)}

\* The set of the elements of a sequence.
Range(q) == {q[k] : k \in 1..Len(q)}

\* C16: for any prior cache and any SerializedPartial s whose buffer is
\* 32 x count(indices) bytes long, load_partial(s) returns Ok; afterwards each
\* index of s maps to the chunk paired with its last occurrence in s, whatever
\* was cached there, and every position not among s.indices keeps its
\* presence and its chunk.
LoadOverwrites ==
    [][op'.name = "load_partial"
          => LET idx == op'.sp.indices
             IN  /\ ret'.tag = "Ok"
                 /\ \A k \in 1..Len(idx) :
                        (\A j \in (k + 1)..Len(idx) : idx[j] # idx[k])
                            => /\ Present(cache', idx[k])
                               /\ cache'[idx[k]] = Slice(op'.sp.chunks, k)
                 /\ \A i \in (DOMAIN cache \cup DOMAIN cache') \ Range(idx) :
                        /\ Present(cache, i) /\ Present(cache', i)
                        /\ cache'[i] = cache[i]]_vars

\* A load named a position twice with different chunks; the position holds
\* the later one, and another position kept the chunk it had.
LoadOverwritesWitness ==
    /\ op.name = "load_partial" /\ ret.tag = "Ok"
    /\ \E j, k \in 1..Len(op.sp.indices) :
           /\ j < k /\ op.sp.indices[j] = op.sp.indices[k]
           /\ Slice(op.sp.chunks, j) # Slice(op.sp.chunks, k)
           /\ cache[op.sp.indices[k]] = Slice(op.sp.chunks, k)
    /\ \E i \in DOMAIN cache \ Range(op.sp.indices) : cache[i] = RawChunk(i)

\* The entries of a Primitive node whose byte offset is the number n.
OffsetHits(entries, n) == {k \in 1..Len(entries) : entries[k].offset = n}

\* C17: when a path resolves to a Primitive node and its last step is a
\* number n, the resolved range is (index, offset, offset + size) of the first
\* entry whose offset equals n, and with no such entry the operation fails
\* with InvalidPath, for every n >= 0, the n >= 256 included.
NumericResolution ==
    (/\ op.name = "get_bytes" /\ op.path # <<>> /\ get_node(op.path).ok
     /\ get_node(op.path).node.kind = "Primitive" /\ op.path[Len(op.path)].isIndex)
        => LET entries == get_node(op.path).node.entries
               hits == OffsetHits(entries, op.path[Len(op.path)].index)
           IN  IF hits = {}
               THEN At(op.path).tag = "InvalidPath" /\ ret.tag = "InvalidPath"
               ELSE LET p == entries[CHOOSE k \in hits : \A j \in hits : k <= j]
                    IN  At(op.path) = Resolved(p.index, p.offset, p.offset + p.size)

(* ------------------------ claims on the proof walk --------------------- *)

\* C18: each iteration of the loop of extract_partial replaces visitor by
\* (visitor + 1) / 2 - 1, the unique p with visitor in {2p+1, 2p+2}; visitor
\* strictly decreases, the sibling computed is the other child of p, and the
\* loop ends with visitor 0 after depth(leaf) iterations for every starting
\* index, or returns ChunkNotLoaded before.
WalkClimbs ==
    /\ [][(walk.status = "walking" /\ walk.visitor > 0)
            => \/ walk'.status = "ChunkNotLoaded" /\ walk'.visitor = walk.visitor
               \/ LET p == walk'.visitor
                  IN  /\ walk'.status = "walking"
                      /\ p = (walk.visitor + 1) \div 2 - 1
                      /\ walk.visitor \in {2 * p + 1, 2 * p + 2}
                      /\ \A q \in 0..MaxLeaf : walk.visitor \in {2 * q + 1, 2 * q + 2} => q = p
                      /\ p >= 0 /\ p < walk.visitor
                      /\ walk'.sibling \in {2 * p + 1, 2 * p + 2} \ {walk.visitor}
                      /\ walk'.steps = walk.steps + 1
                      /\ walk'.steps <= Depth(walk.leaf)
                      /\ (p = 0) <=> (walk'.steps = Depth(walk.leaf))]_vars
    /\ <>(walk.status = "ChunkNotLoaded"
            \/ (walk.visitor = 0 /\ walk.steps = Depth(walk.leaf)))

\* A walk from a position at depth 3 reached the root in three iterations.
WalkClimbsWitness ==
    /\ walk.status = "walking" /\ walk.leaf >= 7
    /\ walk.visitor = 0 /\ walk.steps = 3 /\ Len(walk.indices) = 4

(* ------------------------ claims on spliced writes --------------------- *)

\* C19: a set_bytes call that takes the splice branch (len(bytes) # 32, the
\* chunk at index present, the range [begin, end) with end <= 32) returns Ok
\* if and only if len(bytes) >= end - begin; then bytes[0 .. end-begin) are
\* written to [begin, end), the bytes beyond are ignored and the rest of the
\* chunk is kept; with len(bytes) < end - begin the call aborts on a read
\* outside bytes and the cache is as it was.
SpliceLength ==
    [][(/\ op'.name = "set_bytes" /\ ResolvesTo(op'.path) /\ Len(op'.bytes) # 32
        /\ Present(cache, At(op'.path).index) /\ At(op'.path).end <= 32)
          => LET at == At(op'.path)
                 n == at.end - at.begin
                 written == [k \in 1..BYTES_PER_CHUNK |->
                                IF at.begin < k /\ k <= at.end
                                THEN op'.bytes[k - at.begin]
                                ELSE cache[at.index][k]]
             IN  /\ (ret'.tag = "Ok") <=> (Len(op'.bytes) >= n)
                 /\ Len(op'.bytes) >= n => cache' = CacheInsert(cache, at.index, written)
                 /\ Len(op'.bytes) < n => (ret'.tag = "Panic" /\ cache' = cache)]_vars

\* Sixteen bytes were written to a range of eight: the range holds the first
\* eight and the byte after the range is not the ninth.
SpliceLengthWitness ==
    /\ op.name = "set_bytes" /\ ret.tag = "Ok" /\ ResolvesTo(op.path)
    /\ Len(op.bytes) = 16 /\ At(op.path).end - At(op.path).begin = 8
    /\ SubSeq(cache[At(op.path).index], At(op.path).begin + 1, At(op.path).end)
            = SubSeq(op.bytes, 1, 8)
    /\ cache[At(op.path).index][At(op.path).end + 1] # op.bytes[9]

====
